---------------------------- MODULE Spec2Model ----------------------------
(***************************************************************************)
(* AniFlix backend (src/main.py, src/schemas.py): the three collections    *)
(* show, watchlistitem and userprogress of the document store, and the     *)
(* HTTP handlers that read and write them.                                 *)
(*                                                                         *)
(* Strings that the code inspects character by character (show titles,     *)
(* the regular expression q, identifier strings) are sequences of          *)
(* one-character strings; strings that are only compared for equality      *)
(* (user ids, genres, tags, type) are TLA+ strings.  A rating is kept in   *)
(* tenths (9.2 is 92), so that the float bounds 0 and 10 are 0 and 100.    *)
(* A handler is one step per store call: the store is shared by every      *)
(* request (and every server process), each store call is atomic, and a    *)
(* handler that makes several calls can be overtaken between them.         *)
(***************************************************************************)
EXTENDS Integers, Sequences, FiniteSets, TLC

VARIABLES
    db,             \* the store handle of database.py: "configured" or None
    show,           \* collection show, in natural (insertion) order
    watchlistitem,  \* collection watchlistitem, in natural order
    userprogress,   \* collection userprogress, in natural order
    seedpc,         \* per /seed request in flight: "idle" or the demos inserted so far
    wl,             \* the /watchlist request in flight, between its two reads
    resp,           \* the last response sent to a caller
    posted,         \* history: the Show bodies accepted by POST /shows, by returned id
    lastSet         \* history: per (user_id, show_id), the body of the last successful
                    \* POST /progress, and whether it replaced a different one

vars == <<db, show, watchlistitem, userprogress, seedpc, wl, resp, posted, lastSet>>

\* An Optional[...] value is None or Some(v); db is "configured" or DbNone (None).
None == {}
Some(v) == {v}
Val(o) == CHOOSE v \in o : TRUE
DbNone == "none"

----------------------------------------------------------------------------
(* Bounds of the model.                                                    *)

\* POST /shows calls that reach the store
MaxShows == 2
\* POST /watchlist calls that reach the store
MaxItems == 2
\* POST /seed requests that can be in flight together
MaxSeedReqs == 2

----------------------------------------------------------------------------
(* Characters and strings.                                                 *)

UpperSeq == <<"A","B","C","D","E","F","G","H","I","J","K","L","M",
              "N","O","P","Q","R","S","T","U","V","W","X","Y","Z">>
LowerSeq == <<"a","b","c","d","e","f","g","h","i","j","k","l","m",
              "n","o","p","q","r","s","t","u","v","w","x","y","z">>

Lower(c) ==
    IF \E i \in 1..Len(UpperSeq) : UpperSeq[i] = c
    THEN LowerSeq[CHOOSE i \in 1..Len(UpperSeq) : UpperSeq[i] = c]
    ELSE c

Upper(c) ==
    IF \E i \in 1..Len(LowerSeq) : LowerSeq[i] = c
    THEN UpperSeq[CHOOSE i \in 1..Len(LowerSeq) : LowerSeq[i] = c]
    ELSE c

LowerStr(s) == [i \in 1..Len(s) |-> Lower(s[i])]
UpperStr(s) == [i \in 1..Len(s) |-> Upper(s[i])]

Range(s) == {s[i] : i \in 1..Len(s)}

----------------------------------------------------------------------------
(* bson.ObjectId as main.py uses it: ObjectId(str), ObjectId.is_valid(str) *)
(* and str(ObjectId).  An ObjectId is its 12 bytes, kept as 24 nibbles;    *)
(* the string form is 24 hex digits, read in either case and written in    *)
(* lower case.                                                             *)

OidLen == 24

HexSeq == <<"0","1","2","3","4","5","6","7","8","9","a","b","c","d","e","f">>

HexDigits == Range(HexSeq) \cup {Upper(HexSeq[i]) : i \in 1..Len(HexSeq)}

HexVal(c) == (CHOOSE i \in 1..Len(HexSeq) : HexSeq[i] = Lower(c)) - 1

ObjectId_is_valid(s) ==
    /\ Len(s) = OidLen
    /\ \A i \in 1..Len(s) : s[i] \in HexDigits

\* ObjectId(s), for a valid s (it raises InvalidId otherwise)
ObjectId(s) == [i \in 1..Len(s) |-> HexVal(s[i])]

\* str(oid)
OidStr(oid) == [i \in 1..Len(oid) |-> HexSeq[oid[i] + 1]]

\* the n-th identifier the driver generates for a document of collection c
NewOid(c, n) ==
    [i \in 1..OidLen |->
        IF i = OidLen THEN n % 16
        ELSE IF i = OidLen - 1 THEN c
        ELSE 0]

----------------------------------------------------------------------------
(* schemas.py: the validated request bodies.                               *)

\* a Show whose year has lost its ge/le bounds
ShowValidNoYear(s) ==
    /\ s.type \in {"anime", "cartoon"}
    /\ (IF s.rating = None THEN TRUE ELSE Val(s.rating) >= 0 /\ Val(s.rating) <= 100)

\* Show(BaseModel): title and description are plain str, type a Literal,
\* year and rating are Optional with ge/le bounds
ShowValid(s) ==
    /\ s.type \in {"anime", "cartoon"}
    /\ (IF s.year = None THEN TRUE ELSE Val(s.year) >= 1900 /\ Val(s.year) <= 2100)
    /\ (IF s.rating = None THEN TRUE ELSE Val(s.rating) >= 0 /\ Val(s.rating) <= 100)

\* UserProgress(BaseModel): position_seconds has ge=0
UserProgressValid(p) == p.position_seconds >= 0

\* WatchlistItem(BaseModel): two required strings
WatchlistItemValid(i) == TRUE

----------------------------------------------------------------------------
(* The document store as main.py uses it: documents are records, a         *)
(* collection is the sequence of its documents in natural order.           *)

ShowTag == 10
ItemTag == 11
ProgressTag == 12

\* the outcomes of one store call: it answers, or it raises (unreachable, timeout)
StoreOutcomes == {"ok", "raises"}

WithId(doc, id) ==
    [k \in DOMAIN doc \cup {"_id"} |-> IF k = "_id" THEN id ELSE doc[k]]

\* collection.insert_one(doc): the driver generates the _id
InsertOne(coll, tag, doc) == Append(coll, WithId(doc, NewOid(tag, Len(coll) + 1)))

\* {"$regex": pat, "$options": "i"} against a string: an unanchored search;
\* a "." of the pattern matches any character, every other character of
\* the patterns used here matches itself, in either case
RegexSearch(pat, text) ==
    \E k \in 0..(Len(text) - Len(pat)) :
        \A i \in 1..Len(pat) :
            pat[i] = "." \/ Lower(pat[i]) = Lower(text[k + i])

\* the fields of a document that hold arrays
ArrayFields == {"genres", "tags"}

\* the conditions of a filter: a value, {"$regex": ..., "$options": "i"}, {"$in": [...]}
Eq(v) == [op |-> "eq", v |-> v]
Regex(pat) == [op |-> "regex", v |-> pat]
In(vs) == [op |-> "in", v |-> vs]

\* one condition of a filter against one document: a value matches an
\* equal field, or an array field that holds it
FieldMatches(d, k, cond) ==
    /\ k \in DOMAIN d
    /\ CASE cond.op = "regex" -> RegexSearch(cond.v, d[k])
         [] cond.op = "in" -> d[k] \in cond.v
         [] OTHER -> IF k \in ArrayFields THEN cond.v \in Range(d[k])
                     ELSE d[k] = cond.v

DocMatches(d, filt) == \A k \in DOMAIN filt : FieldMatches(d, k, filt[k])

\* collection.find(filt)
Find(coll, filt) == SelectSeq(coll, LAMBDA d : DocMatches(d, filt))

\* cursor.limit(n): 0 is no limit, a negative n limits to -n documents
Limit(docs, n) ==
    IF n = 0 THEN docs
    ELSE LET m == IF n < 0 THEN 0 - n ELSE n
         IN  SubSeq(docs, 1, IF m < Len(docs) THEN m ELSE Len(docs))

\* collection.find_one(filt): a sequence of at most one document
FindOne(coll, filt) == Limit(Find(coll, filt), 1)

\* the fields an upsert takes from the equality conditions of its filter
FilterFields(filt) == [k \in DOMAIN filt |-> filt[k].v]

\* {"$setOnInsert": fields}: the fields a document has already are kept
SetOnInsertFields(d, fields) ==
    [k \in DOMAIN d \cup DOMAIN fields |-> IF k \in DOMAIN d THEN d[k] ELSE fields[k]]

\* {"$set": fields} applied to a document
SetFields(d, fields) ==
    [k \in DOMAIN d \cup DOMAIN fields |-> IF k \in DOMAIN fields THEN fields[k] ELSE d[k]]

\* collection.insert_one in the place of the upsert
InsertAlways(coll, tag, filt, fields) ==
    InsertOne(coll, tag, SetFields(FilterFields(filt), fields))

\* collection.update_one(filt, {"$set": fields}, upsert=True): one atomic
\* store operation, on the first match or, without a match, an insert
UpdateOneUpsert(coll, tag, filt, fields) ==
    IF \E i \in 1..Len(coll) : DocMatches(coll[i], filt)
    THEN LET i == CHOOSE j \in 1..Len(coll) :
                      /\ DocMatches(coll[j], filt)
                      /\ \A h \in 1..(j - 1) : ~DocMatches(coll[h], filt)
         IN  [coll EXCEPT ![i] = SetFields(@, fields)]
    ELSE InsertOne(coll, tag, SetFields(FilterFields(filt), fields))

\* collection.count_documents({})
CountDocuments(coll) == Len(coll)

\* create_document(name, data) of database.py: one insert of the dumped body
create_document(coll, tag, data) == InsertOne(coll, tag, data)

\* the identifier create_document returns for that insert
created_id(coll, tag) == OidStr(NewOid(tag, Len(coll) + 1))

----------------------------------------------------------------------------
(* main.py                                                                 *)

\* a serialisation that removes the _id it cannot encode
serialize_doc_drops_id(doc) == [k \in DOMAIN doc \ {"_id"} |-> doc[k]]

serialize_doc(doc) ==
    IF "_id" \in DOMAIN doc THEN [doc EXCEPT !["_id"] = OidStr(@)] ELSE doc

SerializeAll(docs) == [i \in 1..Len(docs) |-> serialize_doc(docs[i])]

\* the demos of seed_demo
Demos == <<
    [title |-> <<"A","t","t","a","c","k"," ","o","n"," ","T","i","t","a","n">>,
     description |-> "Humans vs. titans in a walled world.",
     genres |-> <<"action", "drama">>, type |-> "anime",
     year |-> Some(2013), rating |-> Some(90),
     poster_url |-> "https://image.tmdb.org/t/p/w342/aiy35Evcofzl7hASZZvsFgltHTX.jpg",
     backdrop_url |-> "https://image.tmdb.org/t/p/w780/gnWgk6W2vNhbbX6YsJhBKt3vnDn.jpg",
     tags |-> <<"trending", "popular">>],
    [title |-> <<"D","e","m","o","n"," ","S","l","a","y","e","r">>,
     description |-> "Tanjiro becomes a demon slayer after tragedy.",
     genres |-> <<"action", "fantasy">>, type |-> "anime",
     year |-> Some(2019), rating |-> Some(88),
     poster_url |-> "https://image.tmdb.org/t/p/w342/wrCVHdkBlBWdJUZPvnJWcBRuhSY.jpg",
     backdrop_url |-> "https://image.tmdb.org/t/p/w780/bOGk3ZcZ1UBX8ZUBKbjDg7sWXBm.jpg",
     tags |-> <<"trending">>],
    [title |-> <<"A","v","a","t","a","r",":"," ","T","h","e"," ","L","a","s","t"," ",
                 "A","i","r","b","e","n","d","e","r">>,
     description |-> "The four nations, one avatar.",
     genres |-> <<"adventure", "fantasy">>, type |-> "cartoon",
     year |-> Some(2005), rating |-> Some(92),
     poster_url |-> "https://image.tmdb.org/t/p/w342/cs0neU42Pvvrg1I8o1gChX2NDSS.jpg",
     backdrop_url |-> "https://image.tmdb.org/t/p/w780/8mRgpubxHqnqvENK3H4WlfHXo60.jpg",
     tags |-> <<"classic">>] >>

\* a response; body is the JSON body of a 2xx answer, and store records what
\* the handler's store call did: "unused" (no call was made), "unconfigured"
\* (db is None), "raises" or "ok"
Response(op, req, status, body, store) ==
    [op |-> op, req |-> req, status |-> status, body |-> body, store |-> store]

NoBody == <<>>

\* the truth value of an Optional[str] parameter: neither None nor empty
Truthy(o, empty) == IF o = None THEN FALSE ELSE Val(o) # empty

\* the filter list_shows builds: a key per truthy parameter
ShowFilter(q, genre, type, tag) ==
    [k \in  (IF Truthy(q, <<>>) THEN {"title"} ELSE {})
        \cup (IF Truthy(genre, "") THEN {"genres"} ELSE {})
        \cup (IF Truthy(type, "") THEN {"type"} ELSE {})
        \cup (IF Truthy(tag, "") THEN {"tags"} ELSE {})
     |-> CASE k = "title" -> Regex(Val(q))
          [] k = "genres" -> Eq(Val(genre))
          [] k = "type" -> Eq(Val(type))
          [] k = "tags" -> Eq(Val(tag))]

\* Query(None, pattern="^(anime|cartoon)$")
TypeParamValid(type) == IF type = None THEN TRUE ELSE Val(type) \in {"anime", "cartoon"}

----------------------------------------------------------------------------
(* The requests of the model.                                              *)

ShowA == [title |-> <<"A","b">>, description |-> "first",
          genres |-> <<"action">>, type |-> "anime",
          year |-> Some(1900), rating |-> Some(0),
          poster_url |-> None, backdrop_url |-> None,
          tags |-> <<"new">>, episodes |-> None]

ShowB == [title |-> <<"b","b">>, description |-> "second",
          genres |-> <<"drama", "action">>, type |-> "cartoon",
          year |-> Some(2100), rating |-> Some(100),
          poster_url |-> None, backdrop_url |-> None,
          tags |-> <<>>, episodes |-> None]

ShowEmptyTitle == [title |-> <<>>, description |-> "",
          genres |-> <<>>, type |-> "anime",
          year |-> None, rating |-> None,
          poster_url |-> None, backdrop_url |-> None,
          tags |-> <<>>, episodes |-> None]

ShowBodies ==
    {ShowA, ShowB, ShowEmptyTitle,
     [ShowA EXCEPT !.year = Some(1899)], [ShowA EXCEPT !.year = Some(2101)],
     [ShowA EXCEPT !.rating = Some(0 - 1)], [ShowA EXCEPT !.rating = Some(101)],
     [ShowA EXCEPT !.type = "movie"]}

ShowIdStr(n) == OidStr(NewOid(ShowTag, n))

\* identifier strings a caller sends: those of the first shows, one of them
\* in upper case, a well-formed one of no show, and malformed ones
IdStrings ==
    {ShowIdStr(1), ShowIdStr(2), UpperStr(ShowIdStr(1)),
     OidStr(NewOid(ItemTag, 1)),
     <<"b","a","d">>, [ShowIdStr(1) EXCEPT ![1] = "g"]}

Qs == {None, Some(<<>>), Some(<<"a">>), Some(<<".">>)}
Genres == {None, Some("action")}
Types == {None, Some("cartoon"), Some("movie")}
Tags == {None, Some("new")}
Limits == {0 - 1, 0, 1, 50}

SeedReqs == 1..MaxSeedReqs

Users == {"u1", "u2"}

\* the (user_id, show_id) pairs of the progress requests
ProgressKeys == {<<"u1", "s1">>, <<"u1", "s2">>, <<"u2", "s1">>}

\* POST /progress bodies: two valid values that differ in both fields, and
\* a negative position
ProgressBodies ==
    {[user_id |-> k[1], show_id |-> k[2],
      episode_number |-> v[1], position_seconds |-> v[2]] :
        k \in ProgressKeys, v \in {<<3, 120>>, <<5, 0>>, <<5, 0 - 1>>}}

\* POST /watchlist bodies: show_id is the identifier of the first or second
\* show, in either case, or no identifier at all
ItemBodies ==
    {[user_id |-> "u1", show_id |-> i] :
        i \in {ShowIdStr(1), UpperStr(ShowIdStr(1)), ShowIdStr(2), <<"b","a","d">>}}
    \cup {[user_id |-> "u2", show_id |-> ShowIdStr(2)]}

----------------------------------------------------------------------------
(* Handlers of main.py.                                                    *)

NoResponse == Response("none", <<>>, 0, NoBody, "unused")

Init ==
    /\ db \in {"configured", DbNone}
    /\ show = <<>>
    /\ watchlistitem = <<>>
    /\ userprogress = <<>>
    /\ seedpc = [r \in SeedReqs |-> 0]
    /\ wl = [pc |-> 0]
    /\ resp = NoResponse
    /\ posted = <<>>
    /\ lastSet = <<>>

\* GET /shows
list_shows(q, genre, type, tag, limit) ==
    LET req == [q |-> q, genre |-> genre, type |-> type, tag |-> tag, limit |-> limit]
    IN
    /\ \/ /\ ~TypeParamValid(type)
          /\ resp' = Response("list_shows", req, 422, NoBody, "unused")
       \/ /\ TypeParamValid(type)
          /\ db = DbNone
          /\ resp' = Response("list_shows", req, 500, NoBody, "unconfigured")
       \/ /\ TypeParamValid(type)
          /\ db # DbNone
          /\ \E o \in StoreOutcomes :
                IF o = "raises"
                THEN resp' = Response("list_shows", req, 500, NoBody, "raises")
                ELSE resp' = Response("list_shows", req, 200,
                        SerializeAll(Limit(Find(show, ShowFilter(q, genre, type, tag)), limit)), "ok")
    /\ UNCHANGED <<db, show, watchlistitem, userprogress, seedpc, wl, posted, lastSet>>

\* POST /shows
create_show(body) ==
    /\ Cardinality(DOMAIN posted) < MaxShows
    /\ \/ /\ ~ShowValid(body)
          /\ resp' = Response("create_show", body, 422, NoBody, "unused")
          /\ UNCHANGED <<show, posted>>
       \/ /\ ShowValid(body)
          /\ db = DbNone
          /\ resp' = Response("create_show", body, 500, NoBody, "unconfigured")
          /\ UNCHANGED <<show, posted>>
       \/ /\ ShowValid(body)
          /\ db # DbNone
          /\ \E o \in StoreOutcomes :
                IF o = "raises"
                THEN /\ resp' = Response("create_show", body, 500, NoBody, "raises")
                     /\ UNCHANGED <<show, posted>>
                ELSE /\ show' = create_document(show, ShowTag, body)
                     /\ resp' = Response("create_show", body, 201,
                                         [_id |-> created_id(show, ShowTag)], "ok")
                     /\ posted' = (created_id(show, ShowTag) :> body) @@ posted
    /\ UNCHANGED <<db, watchlistitem, userprogress, seedpc, wl, lastSet>>

\* GET /shows/{show_id}: what the try block does with the store's outcome o
get_show_result(show_id, o) ==
    IF ~ObjectId_is_valid(show_id)
    THEN Response("get_show", show_id, 400, NoBody, "unused")
    ELSE IF o = "raises"
    THEN Response("get_show", show_id, 400, NoBody, "raises")
    ELSE LET doc == FindOne(show, [_id |-> Eq(ObjectId(show_id))])
         IN  IF doc = <<>>
             THEN Response("get_show", show_id, 404, NoBody, "ok")
             ELSE Response("get_show", show_id, 200, serialize_doc(doc[1]), "ok")

get_show(show_id) ==
    /\ IF db = DbNone
       THEN resp' = Response("get_show", show_id, 500, NoBody, "unconfigured")
       ELSE \E o \in StoreOutcomes : resp' = get_show_result(show_id, o)
    /\ UNCHANGED <<db, show, watchlistitem, userprogress, seedpc, wl, posted, lastSet>>

\* POST /seed, first store call: count = db["show"].count_documents({}) if db else 0.
\* bool(db) of a configured handle is true, or raises NotImplementedError
\* (pymongo 4 and later), depending on the driver installed.
seed_count(r) ==
    /\ seedpc[r] = 0
    /\ \/ /\ db = DbNone
          /\ seedpc' = [seedpc EXCEPT ![r] = 1]
          /\ UNCHANGED resp
       \/ /\ db # DbNone
          /\ \E o \in StoreOutcomes \cup {"bool raises"} :
                IF o # "ok"
                THEN /\ resp' = Response("seed_demo", r, 500, NoBody, "raises")
                     /\ UNCHANGED seedpc
                ELSE IF CountDocuments(show) > 0
                THEN /\ resp' = Response("seed_demo", r, 200,
                                [seeded |-> FALSE, count |-> CountDocuments(show)], "ok")
                     /\ UNCHANGED seedpc
                ELSE /\ seedpc' = [seedpc EXCEPT ![r] = 1]
                     /\ UNCHANGED resp
    /\ UNCHANGED <<db, show, watchlistitem, userprogress, wl, posted, lastSet>>

\* POST /seed, the loop: one create_document per demo, then the answer
seed_insert(r) ==
    /\ seedpc[r] > 0
    /\ \/ /\ db = DbNone
          /\ resp' = Response("seed_demo", r, 500, NoBody, "unconfigured")
          /\ seedpc' = [seedpc EXCEPT ![r] = 0]
          /\ UNCHANGED show
       \/ /\ db # DbNone
          /\ \E o \in StoreOutcomes :
                IF o = "raises"
                THEN /\ resp' = Response("seed_demo", r, 500, NoBody, "raises")
                     /\ seedpc' = [seedpc EXCEPT ![r] = 0]
                     /\ UNCHANGED show
                ELSE /\ show' = create_document(show, ShowTag, Demos[seedpc[r]])
                     /\ IF seedpc[r] < Len(Demos)
                        THEN /\ seedpc' = [seedpc EXCEPT ![r] = @ + 1]
                             /\ UNCHANGED resp
                        ELSE /\ seedpc' = [seedpc EXCEPT ![r] = 0]
                             /\ resp' = Response("seed_demo", r, 200,
                                    [seeded |-> TRUE, count |-> Len(Demos)], "ok")
    /\ UNCHANGED <<db, watchlistitem, userprogress, wl, posted, lastSet>>

\* POST /watchlist
add_watchlist(item) ==
    /\ Len(watchlistitem) < MaxItems
    /\ \/ /\ ~WatchlistItemValid(item)
          /\ resp' = Response("add_watchlist", item, 422, NoBody, "unused")
          /\ UNCHANGED watchlistitem
       \/ /\ WatchlistItemValid(item)
          /\ db = DbNone
          /\ resp' = Response("add_watchlist", item, 500, NoBody, "unconfigured")
          /\ UNCHANGED watchlistitem
       \/ /\ WatchlistItemValid(item)
          /\ db # DbNone
          /\ \E o \in StoreOutcomes :
                IF o = "raises"
                THEN /\ resp' = Response("add_watchlist", item, 500, NoBody, "raises")
                     /\ UNCHANGED watchlistitem
                ELSE /\ watchlistitem' = create_document(watchlistitem, ItemTag, item)
                     /\ resp' = Response("add_watchlist", item, 201,
                                         [_id |-> created_id(watchlistitem, ItemTag)], "ok")
    /\ UNCHANGED <<db, show, userprogress, seedpc, wl, posted, lastSet>>

\* a join that resolves the first valid identifier only
valid_show_ids_first(items) ==
    LET valid == SelectSeq(items, LAMBDA i : ObjectId_is_valid(i.show_id))
    IN  IF valid = <<>> THEN <<>> ELSE <<ObjectId(valid[1].show_id)>>

\* the list comprehension of get_watchlist: the ObjectIds of the items
\* whose show_id is a valid identifier string
valid_show_ids(items) ==
    LET valid == SelectSeq(items, LAMBDA i : ObjectId_is_valid(i.show_id))
    IN  [n \in 1..Len(valid) |-> ObjectId(valid[n].show_id)]

WatchlistRequest(user_id, items, lookups) ==
    [user_id |-> user_id, items |-> items, lookups |-> lookups]

\* GET /watchlist, first store call: the user's items; without a valid
\* identifier among them the handler answers [] at once
get_watchlist_items(user_id) ==
    /\ wl.pc = 0
    /\ \/ /\ db = DbNone
          /\ resp' = Response("get_watchlist", WatchlistRequest(user_id, <<>>, 0),
                              500, NoBody, "unconfigured")
          /\ UNCHANGED wl
       \/ /\ db # DbNone
          /\ \E o \in StoreOutcomes :
                LET items == Find(watchlistitem, [user_id |-> Eq(user_id)])
                    show_ids == valid_show_ids(items)
                IN  IF o = "raises"
                    THEN /\ resp' = Response("get_watchlist",
                                        WatchlistRequest(user_id, <<>>, 0), 500, NoBody, "raises")
                         /\ UNCHANGED wl
                    ELSE IF show_ids = <<>>
                    THEN /\ resp' = Response("get_watchlist",
                                        WatchlistRequest(user_id, items, 0), 200, <<>>, "ok")
                         /\ UNCHANGED wl
                    ELSE /\ wl' = [pc |-> 1, user_id |-> user_id, items |-> items,
                                   show_ids |-> show_ids]
                         /\ UNCHANGED resp
    /\ UNCHANGED <<db, show, watchlistitem, userprogress, seedpc, posted, lastSet>>

\* GET /watchlist, second store call: the one batched lookup of the shows
get_watchlist_shows ==
    /\ wl.pc = 1
    /\ \E o \in StoreOutcomes :
          IF o = "raises"
          THEN resp' = Response("get_watchlist",
                            WatchlistRequest(wl.user_id, wl.items, 1), 500, NoBody, "raises")
          ELSE resp' = Response("get_watchlist",
                            WatchlistRequest(wl.user_id, wl.items, 1), 200,
                            SerializeAll(Find(show, [_id |-> In(Range(wl.show_ids))])), "ok")
    /\ wl' = [pc |-> 0]
    /\ UNCHANGED <<db, show, watchlistitem, userprogress, seedpc, posted, lastSet>>

\* POST /progress
set_progress(p) ==
    /\ \/ /\ ~UserProgressValid(p)
          /\ resp' = Response("set_progress", p, 422, NoBody, "unused")
          /\ UNCHANGED <<userprogress, lastSet>>
       \/ /\ UserProgressValid(p)
          /\ db = DbNone
          /\ resp' = Response("set_progress", p, 500, NoBody, "unconfigured")
          /\ UNCHANGED <<userprogress, lastSet>>
       \/ /\ UserProgressValid(p)
          /\ db # DbNone
          /\ \E o \in StoreOutcomes :
                IF o = "raises"
                THEN /\ resp' = Response("set_progress", p, 500, NoBody, "raises")
                     /\ UNCHANGED <<userprogress, lastSet>>
                ELSE /\ userprogress' = UpdateOneUpsert(userprogress, ProgressTag,
                            [user_id |-> Eq(p.user_id), show_id |-> Eq(p.show_id)], p)
                     /\ resp' = Response("set_progress", p, 201, [ok |-> TRUE], "ok")
                     /\ lastSet' = LET k == <<p.user_id, p.show_id>>
                                    over == IF k \in DOMAIN lastSet
                                            THEN lastSet[k].body # p ELSE FALSE
                                IN  (k :> [body |-> p, over |-> over]) @@ lastSet
    /\ UNCHANGED <<db, show, watchlistitem, seedpc, wl, posted>>

\* what get_progress answers when the store answers
get_progress_body(user_id, show_id) ==
    LET doc == FindOne(userprogress, [user_id |-> Eq(user_id), show_id |-> Eq(show_id)])
    IN  IF doc = <<>> THEN <<>> ELSE serialize_doc(doc[1])

\* GET /progress
get_progress(user_id, show_id) ==
    LET req == [user_id |-> user_id, show_id |-> show_id]
    IN
    /\ IF db = DbNone
       THEN resp' = Response("get_progress", req, 500, NoBody, "unconfigured")
       ELSE \E o \in StoreOutcomes :
                IF o = "raises"
                THEN resp' = Response("get_progress", req, 500, NoBody, "raises")
                ELSE resp' = Response("get_progress", req, 200,
                                     get_progress_body(user_id, show_id), "ok")
    /\ UNCHANGED <<db, show, watchlistitem, userprogress, seedpc, wl, posted, lastSet>>

----------------------------------------------------------------------------
(* Specifications: the handlers that act on the collections a property    *)
(* reads, with every interleaving of their store calls.                    *)

\* the catalogue: POST /shows, GET /shows/{id}, GET /shows
NextShows ==
    \/ \E q \in Qs, genre \in Genres, type \in Types, tag \in Tags, limit \in Limits :
            list_shows(q, genre, type, tag, limit)
    \/ \E body \in ShowBodies : create_show(body)
    \/ \E show_id \in IdStrings : get_show(show_id)

SpecShows == Init /\ [][NextShows]_vars

\* seeding: concurrent POST /seed requests, and POST /shows between their store calls
NextSeed ==
    \/ \E r \in SeedReqs : seed_count(r)
    \/ \E r \in SeedReqs : seed_insert(r)
    \/ create_show(ShowA)

SpecSeed == Init /\ [][NextSeed]_vars

\* progress: POST /progress and GET /progress
NextProgress ==
    \/ \E p \in ProgressBodies : set_progress(p)
    \/ \E k \in ProgressKeys : get_progress(k[1], k[2])

SpecProgress == Init /\ [][NextProgress]_vars

\* the watchlist join: POST /shows, POST /watchlist and the two reads of GET /watchlist
NextWatchlist ==
    \/ create_show(ShowA)
    \/ \E item \in ItemBodies : add_watchlist(item)
    \/ \E u \in Users : get_watchlist_items(u)
    \/ get_watchlist_shows

SpecWatchlist == Init /\ [][NextWatchlist]_vars

\* the writes: POST /shows and its read back, with watchlist and progress
\* writes in between
NextWrites ==
    \/ \E body \in ShowBodies : create_show(body)
    \/ \E show_id \in IdStrings : get_show(show_id)
    \/ \E p \in {b \in ProgressBodies : b.user_id = "u1" /\ b.show_id = "s1"} : set_progress(p)
    \/ add_watchlist([user_id |-> "u1", show_id |-> ShowIdStr(1)])

SpecWrites == Init /\ [][NextWrites]_vars

----------------------------------------------------------------------------
(* Properties.                                                             *)

\* C1: after one or more successful POST /progress calls for a key, GET
\* /progress for that key answers the episode_number and position_seconds
\* of the last of them, whatever was written before and for other keys.
C1_LastUpsertWins ==
    (resp.op = "get_progress" /\ resp.status = 200
        /\ <<resp.req.user_id, resp.req.show_id>> \in DOMAIN lastSet)
    => LET last == lastSet[<<resp.req.user_id, resp.req.show_id>>].body
       IN  /\ DOMAIN resp.body # {}
           /\ resp.body.episode_number = last.episode_number
           /\ resp.body.position_seconds = last.position_seconds

\* a GET /progress answered for a key whose last write replaced a different
\* value, with another key written too
C1_Witness ==
    /\ resp.op = "get_progress" /\ resp.status = 200
    /\ <<resp.req.user_id, resp.req.show_id>> \in DOMAIN lastSet
    /\ lastSet[<<resp.req.user_id, resp.req.show_id>>].over
    /\ Cardinality(DOMAIN lastSet) >= 2

C3_AtMostLimit ==
    (resp.op = "list_shows" /\ resp.status = 200)
    => Len(resp.body) <= (IF resp.req.limit < 0 THEN 0 ELSE resp.req.limit)

\* the title contains q as a substring, ignoring case
ContainsIgnoreCase(title, q) ==
    \E k \in 0..(Len(title) - Len(q)) :
        \A i \in 1..Len(q) : Lower(title[k + i]) = Lower(q[i])

\* C4: every record GET /shows returns satisfies every supplied parameter:
\* its type equals type, genre is among its genres, tag among its tags, and
\* its title contains q as a case-insensitive substring.
C4_AllFiltersHold ==
    (resp.op = "list_shows" /\ resp.status = 200)
    => \A n \in 1..Len(resp.body) :
          LET d == resp.body[n]
              r == resp.req
          IN  /\ (IF r.type = None THEN TRUE ELSE d.type = Val(r.type))
              /\ (IF r.genre = None THEN TRUE ELSE Val(r.genre) \in Range(d.genres))
              /\ (IF r.tag = None THEN TRUE ELSE Val(r.tag) \in Range(d.tags))
              /\ (IF r.q = None THEN TRUE ELSE ContainsIgnoreCase(d.title, Val(r.q)))

\* the shows a watchlist answer must hold: those whose identifier is the
\* identifier of one of the items read for the user
ResolvedShows(items) ==
    {serialize_doc(show[n]) : n \in
        {m \in 1..Len(show) :
            \E i \in 1..Len(items) :
                /\ ObjectId_is_valid(items[i].show_id)
                /\ LowerStr(items[i].show_id) = OidStr(show[m]["_id"])}}

ValidItems(items) == {i \in 1..Len(items) : ObjectId_is_valid(items[i].show_id)}

\* C5: GET /watchlist answers without error exactly the existing shows whose
\* identifier is one of the user's valid show ids, each once and at most as
\* many as there are valid ids; invalid ids are dropped; without a valid id
\* the answer is empty and no lookup of the show collection is made.
C5_WatchlistResolves ==
    (resp.op = "get_watchlist" /\ resp.store = "ok")
    => LET items == resp.req.items
           mine == Find(watchlistitem, [user_id |-> Eq(resp.req.user_id)])
       IN  /\ resp.status = 200
           /\ Len(items) <= Len(mine) /\ items = SubSeq(mine, 1, Len(items))
           /\ (resp.req.lookups = 0 => items = mine)
           /\ Range(resp.body) = ResolvedShows(items)
           /\ Cardinality(Range(resp.body)) = Len(resp.body)
           /\ Len(resp.body) <= Cardinality(ValidItems(items))
           /\ (ValidItems(items) = {} => resp.body = <<>> /\ resp.req.lookups = 0)
           /\ (ValidItems(items) # {} => resp.req.lookups = 1)

\* an answer of one show for a user with a valid and an invalid id, while
\* another user has an item too
C5_Witness ==
    /\ resp.op = "get_watchlist" /\ resp.status = 200
    /\ Len(resp.body) = 1
    /\ ValidItems(resp.req.items) # {}
    /\ \E i \in 1..Len(resp.req.items) : ~ObjectId_is_valid(resp.req.items[i].show_id)

\* C6: GET /shows/{id} answers 400 for a malformed identifier, 404 for a
\* well-formed one that matches no show, the show otherwise; it answers
\* 400 only when the identifier is malformed.
C6_GetShowOutcomes ==
    (resp.op = "get_show" /\ db # DbNone)
    => /\ (~ObjectId_is_valid(resp.req) => resp.status = 400)
       /\ (resp.status = 400 => ~ObjectId_is_valid(resp.req))
       /\ (ObjectId_is_valid(resp.req) /\ resp.store = "ok" =>
             IF \E n \in 1..Len(show) : OidStr(show[n]["_id"]) = LowerStr(resp.req)
             THEN resp.status = 200
             ELSE resp.status = 404)

C8_StoreFailureIs500 ==
    resp.store \in {"unconfigured", "raises"} => resp.status = 500

\* a Show body breaks the bounds of year or rating
ShowOutOfBounds(b) ==
    \/ (IF b.year = None THEN FALSE ELSE Val(b.year) < 1900 \/ Val(b.year) > 2100)
    \/ (IF b.rating = None THEN FALSE ELSE Val(b.rating) < 0 \/ Val(b.rating) > 100)

\* the stored records keep the bounds of year, rating and position_seconds
StoredWithinBounds ==
    /\ \A n \in 1..Len(show) : ~ShowOutOfBounds(show[n])
    /\ \A n \in 1..Len(userprogress) : userprogress[n].position_seconds >= 0

\* a rejected body leaves the three collections as they were
RejectChangesNothing ==
    (resp'.status = 422 /\ resp' # resp)
    => UNCHANGED <<show, watchlistitem, userprogress>>

\* C9 as stated: a Show with an empty title, a year outside 1900..2100 or a
\* rating outside 0..10, and a UserProgress with position_seconds < 0, are
\* rejected with a validation error; every stored record has a non-empty
\* title and keeps the bounds.
C9_RejectsEmptyTitle ==
    /\ (resp.op = "create_show" /\ (resp.req.title = <<>> \/ ShowOutOfBounds(resp.req))
            => resp.status = 422)
    /\ (resp.op = "set_progress" /\ resp.req.position_seconds < 0 => resp.status = 422)
    /\ StoredWithinBounds
    /\ \A n \in 1..Len(show) : show[n].title # <<>>

\* C9, amended: a Show with a year outside 1900..2100 or a rating outside
\* 0..10, and a UserProgress with position_seconds < 0, are rejected with a
\* validation error before any store call and leave every collection
\* unchanged; every stored record keeps those bounds.  An empty title is
\* accepted and stored.
C9_ValidatesBounds ==
    /\ [](/\ (resp.op = "create_show" /\ ShowOutOfBounds(resp.req)
                 => resp.status = 422 /\ resp.store = "unused")
          /\ (resp.op = "set_progress" /\ resp.req.position_seconds < 0
                 => resp.status = 422 /\ resp.store = "unused")
          /\ StoredWithinBounds)
    /\ [][RejectChangesNothing]_vars

\* a negative position is rejected while a show with an empty title and a
\* progress record are stored
C9_Witness ==
    /\ resp.op = "set_progress" /\ resp.status = 422
    /\ \E n \in 1..Len(show) : show[n].title = <<>>
    /\ userprogress # <<>>

\* the copies of the n-th demo in the show collection
Copies(n) ==
    Cardinality({m \in 1..Len(show) :
        \A k \in DOMAIN Demos[n] : k \in DOMAIN show[m] /\ show[m][k] = Demos[n][k]})

\* C10: seeding inserts the demos only into an empty show collection, so
\* that after any interleaving of seed requests on an empty store (and no
\* POST /shows) the collection holds each demo once: never twice, and once
\* when a request has answered seeded=true.
C10_EachDemoOnce ==
    DOMAIN posted = {} =>
        /\ \A n \in 1..Len(Demos) : Copies(n) <= 1
        /\ (resp.op = "seed_demo" /\ resp.status = 200 /\ resp.body.seeded
                => \A n \in 1..Len(Demos) : Copies(n) = 1)

=============================================================================
